---- MODULE Spec2Model ----
(***************************************************************************)
(* Model of the tweet_bot repository: three generations of the same bot.   *)
(*   "old" : src/tweet_bot.py            (fallback constants, always posts)*)
(*   "cli" : src/tweet_bot/tweet_bot.py  (strict aggregation, --post flag) *)
(*   "api" : src/api/index.py            (lenient aggregation, HTTP routes)*)
(* Strings are TLA+ strings; Python's None is the reserved token None.     *)
(* Prices are integers in thousandths; a percentage is a signed rational   *)
(* given as numerator and denominator.  The rupee sign U+20B9 that the     *)
(* source puts before a figure is written "Rs" inside strings, which are   *)
(* kept within ASCII (so is the dash of the caption heading).              *)
(***************************************************************************)
EXTENDS Integers, Sequences, FiniteSets, TLC

VARIABLES
    variant,    \* which generation of the bot runs
    job,        \* "global" or "mtf"
    postFlag,   \* --post (the command-line generation; the others always post)
    pc,         \* position of the run in its handler
    idx,        \* position of the ticker loop
    src,        \* per upstream source: requests made, whether it delivered, what its fetcher returned
    call,       \* the latest fetcher call: function, what the source answered, what it returned
    data,       \* the handler's data: None or a dict
    image,      \* the image file written, NoImage when there is none
    text,       \* the caption built
    textFile,   \* the caption file written by the command-line generations
    posts,      \* calls of post_to_twitter
    uploads,    \* calls of media_upload
    tweets,     \* calls of create_tweet
    published,  \* the tweets created
    outcome,    \* "running", "success" or "failure"
    twitter,    \* what post_to_twitter met: the credentials set, whether upload and post went through
    inv,        \* two invocations of one HTTP job: position, data, caption, what was published, outcome
    tmp         \* the image files under /tmp that those invocations share

vars == <<variant, job, postFlag, pc, idx, src, call, data, image, text,
          textFile, posts, uploads, tweets, published, outcome, twitter, inv, tmp>>

Variants == {"old", "cli", "api"}

Jobs == {"global", "mtf"}

\* Python's None.
None == "None"

\* The (None, None) pair both fetchers return on failure.
NoneQuote == [val |-> None, chg |-> None]

(***************************************************************************)
(* Number formatting: Python's format specs ",.2f" and "+.2f".             *)
(***************************************************************************)
DigitChars == <<"0", "1", "2", "3", "4", "5", "6", "7", "8", "9">>

Digit(d) == DigitChars[d + 1]

RECURSIVE ToStr(_)
ToStr(n) == IF n < 10 THEN Digit(n) ELSE ToStr(n \div 10) \o Digit(n % 10)

Pad2(n) == Digit(n \div 10) \o Digit(n % 10)

Pad3(n) == Digit(n \div 100) \o Pad2(n % 100)

\* The thousands separator of the "," format option.
RECURSIVE Grouped(_)
Grouped(n) ==
    IF n < 1000 THEN ToStr(n) ELSE Grouped(n \div 1000) \o "," \o Pad3(n % 1000)

Abs(n) == IF n < 0 THEN 0 - n ELSE n

\* a / b for a >= 0, b > 0, rounded to the nearest integer, ties to even:
\* what ".2f" does to the scaled value.
RoundHalfEven(a, b) ==
    LET q == a \div b
        r == a % b
    IN  IF 2 * r < b THEN q
        ELSE IF 2 * r > b THEN q + 1
        ELSE IF q % 2 = 0 THEN q ELSE q + 1

\* a / b in hundredths, rounded as ".2f" rounds (whole part and remainder
\* apart, which keeps the products small).
Hundredths(a, b) == (a \div b) * 100 + RoundHalfEven((a % b) * 100, b)

\* f"{x:,.2f}" for x = num / den, den > 0.
FormatGrouped2(num, den) ==
    LET h == Hundredths(Abs(num), den)
    IN  (IF num < 0 THEN "-" ELSE "") \o Grouped(h \div 100) \o "." \o Pad2(h % 100)

\* A signed format that cuts the digits after the second decimal off.
FormatSigned2_truncating(num, den) ==
    LET h == (Abs(num) \div den) * 100 + ((Abs(num) % den) * 100) \div den
    IN  (IF num < 0 THEN "-" ELSE "+") \o ToStr(h \div 100) \o "." \o Pad2(h % 100)

\* f"{x:+.2f}" for x = num / den, den > 0: the sign is the sign of x, also
\* when the magnitude rounds to zero.
FormatSigned2(num, den) ==
    LET h == Hundredths(Abs(num), den)
    IN  (IF num < 0 THEN "-" ELSE "+") \o ToStr(h \div 100) \o "." \o Pad2(h % 100)

(***************************************************************************)
(* The price-history provider (yfinance).                                  *)
(***************************************************************************)
\* Longest history the provider holds.
MaxHist == 3

\* Closing prices, in thousandths.
Prices == {99996, 100000, 101004, 800000, 801000, 1234567}

Columns == {"Open", "Close"}

\* One row of the history frame: nan is the set of its null cells. A gap row
\* has every cell null.
Rows ==
    {[Close |-> p, nan |-> n] : p \in Prices, n \in {{}, {"Open"}}}
        \cup {[Close |-> 0, nan |-> Columns]}

RECURSIVE SeqsUpTo(_, _)
SeqsUpTo(S, n) ==
    IF n = 0 THEN {<<>>}
    ELSE LET shorter == SeqsUpTo(S, n - 1)
         IN  shorter \cup {Append(s, x) : s \in {t \in shorter : Len(t) = n - 1}, x \in S}

\* What the provider answers: a frame of rows, or an exception.
YfResponses ==
    {[kind |-> "ok", rows |-> h] : h \in SeqsUpTo(Rows, MaxHist)}
        \cup {[kind |-> "exception", rows |-> <<>>]}

\* Rows the provider returns for the look-back window asked for.
Window2d == 2

history(rows, period) ==
    IF period = "2d" /\ Len(rows) > Window2d
    THEN SubSeq(rows, Len(rows) - Window2d + 1, Len(rows))
    ELSE rows

\* DataFrame.dropna(): drops every row that has a null cell.
dropna(rows) == SelectSeq(rows, LAMBDA r : r.nan = {})

\* f"{close:,.2f}" of a cell: a null cell formats as "nan".
FormatClose(row) ==
    IF "Close" \in row.nan THEN "nan" ELSE FormatGrouped2(row.Close, 1000)

\* change = (cur - prev) / prev * 100 and f"{change:+.2f}%": NaN propagates
\* through the arithmetic and formats as "+nan".
FormatChange(cur, prev) ==
    IF "Close" \in cur.nan \/ "Close" \in prev.nan THEN "+nan%"
    ELSE FormatSigned2((cur.Close - prev.Close) * 100, prev.Close) \o "%"

QuoteOf(h) ==
    [val |-> FormatClose(h[Len(h)]), chg |-> FormatChange(h[Len(h)], h[Len(h) - 1])]

get_yfinance_data_api(resp) ==
    IF resp.kind # "ok" THEN NoneQuote
    ELSE LET hist == dropna(history(resp.rows, "1mo"))
         IN  IF Len(hist) < 2 THEN NoneQuote ELSE QuoteOf(hist)

get_yfinance_data_cli(resp) ==
    IF resp.kind # "ok" THEN NoneQuote
    ELSE LET hist == history(resp.rows, "2d")
         IN  IF Len(hist) < 2 THEN NoneQuote ELSE QuoteOf(hist)

get_yfinance_data_old(resp) ==
    IF resp.kind # "ok" THEN [val |-> "N/A", chg |-> "+0.00%"]
    ELSE LET hist == history(resp.rows, "2d")
         IN  IF Len(hist) < 2 THEN [val |-> "N/A", chg |-> "+0.00%"] ELSE QuoteOf(hist)

get_yfinance_data(v, resp) ==
    CASE v = "api" -> get_yfinance_data_api(resp)
      [] v = "cli" -> get_yfinance_data_cli(resp)
      [] v = "old" -> get_yfinance_data_old(resp)

(***************************************************************************)
(* The GIFT NIFTY page (groww.in).                                         *)
(***************************************************************************)
\* Ways the page request or its parsing raises.
GiftFailures ==
    {"timeout", "http_error", "no_script", "bad_json", "missing_key", "bad_type"}

\* priceData of a well-formed page: value in thousandths, dayChangePerc in
\* thousandths of a percent.
GiftPayloads ==
    {[value |-> 25012500, perc |-> 0 - 804], [value |-> 24890250, perc |-> 125]}

GiftResponses ==
    {[kind |-> "ok", value |-> p.value, perc |-> p.perc] : p \in GiftPayloads}
        \cup {[kind |-> f, value |-> 0, perc |-> 0] : f \in GiftFailures}

fetch_gift_nifty_api(resp) ==
    IF resp.kind = "ok"
    THEN [val |-> FormatGrouped2(resp.value, 1000),
          chg |-> FormatSigned2(resp.perc, 1000) \o "%"]
    ELSE NoneQuote

fetch_gift_nifty_cli(resp) ==
    IF resp.kind = "ok"
    THEN [val |-> FormatGrouped2(resp.value, 1000),
          chg |-> FormatSigned2(resp.perc, 1000) \o "%"]
    ELSE NoneQuote

fetch_gift_nifty_old(resp) ==
    IF resp.kind = "ok"
    THEN [val |-> FormatGrouped2(resp.value, 1000),
          chg |-> FormatSigned2(resp.perc, 1000) \o "%"]
    ELSE [val |-> "25,012.50", chg |-> "-0.80%"]

fetch_gift_nifty(v, resp) ==
    CASE v = "api" -> fetch_gift_nifty_api(resp)
      [] v = "cli" -> fetch_gift_nifty_cli(resp)
      [] v = "old" -> fetch_gift_nifty_old(resp)

(***************************************************************************)
(* Python dicts keep insertion order: a dict is a sequence of key/value    *)
(* entries. A function's return value is either None or a dict.            *)
(***************************************************************************)
NoneData == [none |-> TRUE, items |-> <<>>]

Some(items) == [none |-> FALSE, items |-> items]

DictKeys(d) == [i \in 1..Len(d) |-> d[i].key]

HasKey(d, k) == \E i \in 1..Len(d) : d[i].key = k

\* d[k] = v: an existing key keeps its position, a new one goes last.
DictSet(d, k, v) ==
    IF HasKey(d, k)
    THEN [i \in 1..Len(d) |-> IF d[i].key = k THEN [key |-> k, value |-> v] ELSE d[i]]
    ELSE Append(d, [key |-> k, value |-> v])

\* d.get(k, default)
DictGet(d, k, default) ==
    IF HasKey(d, k) THEN d[CHOOSE i \in 1..Len(d) : d[i].key = k].value ELSE default

(***************************************************************************)
(* The MTF insight page (scanx.trade) and fetch_mtf_data.                  *)
(* The page text is a date line and a sequence of labelled figures, each   *)
(* reading "<label>: <sign>₹<value> Cr".                                   *)
(***************************************************************************)
MtfFailures == {"timeout", "http_error"}

Signs == {"", "+", "-"}

Absent == "absent"

ValueOf(label) ==
    CASE label = "Positions Added" -> "6,614.35"
      [] label = "Positions Liquidated" -> "6,085.26"
      [] label = "Net Book Added" -> "529.10"
      [] label = "Net Book Liquidated" -> "312.45"
      [] label = "Industry MTF Book" -> "88,878.24"

FieldOf(label, opt) ==
    IF opt = Absent THEN <<>>
    ELSE <<[label |-> label, sign |-> opt, value |-> ValueOf(label)]>>

\* The net-book figure: missing, present under either label with any sign, or
\* (a page that changed shape) present under both labels in either order.
NetBookTexts ==
    {<<>>}
        \cup {FieldOf("Net Book Added", s) : s \in Signs}
        \cup {FieldOf("Net Book Liquidated", s) : s \in Signs}
        \cup {FieldOf("Net Book Added", "+") \o FieldOf("Net Book Liquidated", "-"),
              FieldOf("Net Book Liquidated", "-") \o FieldOf("Net Book Added", "+")}

PageDates == {"", "Jul 18, 2025"}

MtfResponses ==
    {[kind |-> "ok", date |-> d,
      fields |-> FieldOf("Positions Added", a) \o FieldOf("Positions Liquidated", l)
                     \o nb \o FieldOf("Industry MTF Book", i)] :
        d \in PageDates, a \in Signs \cup {Absent}, l \in Signs \cup {Absent},
        nb \in NetBookTexts, i \in {"", "-", Absent}}
    \cup {[kind |-> f, date |-> "", fields |-> <<>>] : f \in MtfFailures}

\* re.search for "<one of labels>:\s*<one of signs>₹...Cr": the position of the
\* first figure of the text the pattern matches, 0 for no match.
Search(fields, labels, signs) ==
    LET hits == {i \in 1..Len(fields) : fields[i].label \in labels /\ fields[i].sign \in signs}
    IN  IF hits = {} THEN 0 ELSE CHOOSE i \in hits : \A j \in hits : i <= j

\* re.search(r'as on (\w{3} \d{1,2}, \d{4})'): "" for no match.
DateMatch(resp) == resp.date

\* A re-assembly that puts the captured sign before the currency symbol.
currency_sign_first(sign, value) == sign \o "Rs" \o value \o " Cr"

\* f"₹{captured_value_with_sign} Cr": the captured sign follows the symbol.
currency(sign, value) == "Rs" \o sign \o value \o " Cr"

\* src/api/index.py: the net-book label is found dynamically and the captured
\* sign is kept for it and for Positions Liquidated.
fetch_mtf_data_api(resp) ==
    IF resp.kind # "ok" THEN NoneData
    ELSE
      LET f == resp.fields
          report_date == IF DateMatch(resp) # "" THEN DateMatch(resp) ELSE "Date not found"
          nb == Search(f, {"Net Book Added", "Net Book Liquidated"}, {"", "+", "-"})
          pa == Search(f, {"Positions Added"}, {"", "+"})
          pl == Search(f, {"Positions Liquidated"}, {"", "+", "-"})
          ib == Search(f, {"Industry MTF Book"}, {""})
      IN  IF nb = 0 THEN NoneData
          ELSE IF pa = 0 THEN NoneData
          ELSE IF pl = 0 THEN NoneData
          ELSE IF ib = 0 THEN NoneData
          ELSE Some(<<[key |-> "date", value |-> report_date],
                      [key |-> f[nb].label,
                       value |-> currency(f[nb].sign, f[nb].value)],
                      [key |-> "Positions Added", value |-> "Rs" \o f[pa].value \o " Cr"],
                      [key |-> "Positions Liquidated",
                       value |-> currency(f[pl].sign, f[pl].value)],
                      [key |-> "Industry MTF Book", value |-> "Rs" \o f[ib].value \o " Cr"]>>)

\* The four fixed patterns of the two command-line generations, in dict order:
\* output key, label searched, signs the pattern accepts.
patterns ==
    <<[key |-> "Positions Added", label |-> "Positions Added", signs |-> {"", "+"}],
      [key |-> "Positions Liquidated", label |-> "Positions Liquidated", signs |-> {"", "-"}],
      [key |-> "Net Book Added", label |-> "Net Book Added", signs |-> {"", "+", "-"}],
      [key |-> "Net Industry MTF Book", label |-> "Industry MTF Book", signs |-> {""}]>>

\* src/tweet_bot/tweet_bot.py: the first pattern without a match ends the fetch.
RECURSIVE ExtractStrict(_, _, _)
ExtractStrict(f, k, insights) ==
    IF k > Len(patterns) THEN Some(insights)
    ELSE LET m == Search(f, {patterns[k].label}, patterns[k].signs)
         IN  IF m = 0 THEN NoneData
             ELSE ExtractStrict(f, k + 1,
                      DictSet(insights, patterns[k].key, "Rs" \o f[m].value \o " Cr"))

fetch_mtf_data_cli(resp) ==
    IF resp.kind # "ok" THEN NoneData
    ELSE LET report_date ==
                 IF DateMatch(resp) # "" THEN DateMatch(resp) ELSE "Date not found"
         IN  ExtractStrict(resp.fields, 1, <<[key |-> "date", value |-> report_date]>>)

\* src/tweet_bot.py: a pattern without a match yields "N/A", a failed request
\* the hardcoded record.
RECURSIVE ExtractOld(_, _, _)
ExtractOld(f, k, insights) ==
    IF k > Len(patterns) THEN Some(insights)
    ELSE LET m == Search(f, {patterns[k].label}, patterns[k].signs)
         IN  ExtractOld(f, k + 1,
                 DictSet(insights, patterns[k].key,
                         IF m = 0 THEN "N/A" ELSE "Rs" \o f[m].value \o " Cr"))

fetch_mtf_data_old(resp) ==
    IF resp.kind # "ok"
    THEN Some(<<[key |-> "date", value |-> "Jul 18, 2025"],
                [key |-> "Positions Added", value |-> "Rs6,614.35 Cr"],
                [key |-> "Positions Liquidated", value |-> "Rs6,085.26 Cr"],
                [key |-> "Net Book Added", value |-> "Rs529.10 Cr"],
                [key |-> "Net Industry MTF Book", value |-> "Rs88,878.24 Cr"]>>)
    ELSE LET report_date ==
                 IF DateMatch(resp) # "" THEN DateMatch(resp) ELSE "Jul 18, 2025"
         IN  ExtractOld(resp.fields, 1, <<[key |-> "date", value |-> report_date]>>)

fetch_mtf_data(v, resp) ==
    CASE v = "api" -> fetch_mtf_data_api(resp)
      [] v = "cli" -> fetch_mtf_data_cli(resp)
      [] v = "old" -> fetch_mtf_data_old(resp)

(***************************************************************************)
(* fetch_global_market_data: one GIFT NIFTY fetch, then the five tickers   *)
(* in dict order. Each operator below is the aggregator's reaction to one  *)
(* fetcher result: the dict so far and whether the function returns now.   *)
(***************************************************************************)
\* The ticker dict written with two entries exchanged.
tickers_reordered ==
    <<[name |-> "Nikkei 225", symbol |-> "^N225"],
      [name |-> "Dow Jones Futures", symbol |-> "YM=F"],
      [name |-> "Nasdaq", symbol |-> "^IXIC"],
      [name |-> "S&P 500", symbol |-> "^GSPC"],
      [name |-> "Hang Seng", symbol |-> "^HSI"]>>

tickers ==
    <<[name |-> "Nikkei 225", symbol |-> "^N225"],
      [name |-> "Dow Jones Futures", symbol |-> "YM=F"],
      [name |-> "S&P 500", symbol |-> "^GSPC"],
      [name |-> "Nasdaq", symbol |-> "^IXIC"],
      [name |-> "Hang Seng", symbol |-> "^HSI"]>>

\* The presentation order of the renderer and the captioner.
Labels ==
    <<"GIFTNIFTY", "Nikkei 225", "Dow Jones Futures", "S&P 500", "Nasdaq", "Hang Seng">>

\* Python truthiness of a str-or-None.
Truthy(s) == s # None /\ s # ""

\* A strict aggregator that skips a failed source instead of returning None.
add_quote_cli_skipping(d, name, q) ==
    IF q.val = None THEN [data |-> d, stop |-> FALSE]
    ELSE [data |-> Some(DictSet(d.items, name, q)), stop |-> FALSE]

\* A strict aggregator that notes the failure and returns None only after the
\* whole loop.
add_quote_cli_deferring(d, name, q) ==
    IF q.val = None \/ d.none THEN [data |-> NoneData, stop |-> FALSE]
    ELSE [data |-> Some(DictSet(d.items, name, q)), stop |-> FALSE]

\* strict: "if gn_val is None: return None" / "if val is None: return None"
add_quote_cli(d, name, q) ==
    IF q.val = None THEN [data |-> NoneData, stop |-> TRUE]
    ELSE [data |-> Some(DictSet(d.items, name, q)), stop |-> FALSE]

\* lenient: "if gn_val:" for GIFT NIFTY, "if val is None: continue" for a ticker
add_quote_api(d, name, q) ==
    IF (name = "GIFTNIFTY" /\ ~Truthy(q.val)) \/ (name # "GIFTNIFTY" /\ q.val = None)
    THEN [data |-> d, stop |-> FALSE]
    ELSE [data |-> Some(DictSet(d.items, name, q)), stop |-> FALSE]

\* first generation: whatever the fetcher returned is stored
add_quote_old(d, name, q) ==
    [data |-> Some(DictSet(d.items, name, q)), stop |-> FALSE]

add_quote(v, d, name, q) ==
    CASE v = "api" -> add_quote_api(d, name, q)
      [] v = "cli" -> add_quote_cli(d, name, q)
      [] v = "old" -> add_quote_old(d, name, q)

(***************************************************************************)
(* The renderer and the captioner.                                         *)
(***************************************************************************)
\* datetime.now().strftime("%d %b, %Y") of the run.
Today == "19 Jul, 2025"

Placeholder == [val |-> "N/A", chg |-> "+0.00%"]

\* One image row per fixed label; a label the dict lacks is drawn as N/A.
create_market_update_image(d) ==
    [title |-> "Global Market Update",
     rows |-> [i \in 1..Len(Labels) |->
                 LET q == DictGet(d.items, Labels[i], Placeholder)
                 IN  [key |-> Labels[i], value |-> q.val, change |-> q.chg]]]

IsNetBookKey(k) == k \in {"Net Book Added", "Net Book Liquidated"}

\* "for k in data.keys(): if k.startswith('Net Book'): ...; break"
NetBookKeyOf(d) ==
    LET hits == {i \in 1..Len(d) : IsNetBookKey(d[i].key)}
    IN  IF hits = {} THEN None ELSE d[CHOOSE i \in hits : \A j \in hits : i <= j].key

\* ordered_keys with the dynamic key inserted at position 2.
ordered_keys(d) ==
    IF NetBookKeyOf(d) = None
    THEN <<"Positions Added", "Positions Liquidated", "Industry MTF Book">>
    ELSE <<"Positions Added", "Positions Liquidated", NetBookKeyOf(d), "Industry MTF Book">>

fixed_keys ==
    <<"Positions Added", "Positions Liquidated", "Net Book Added", "Net Industry MTF Book">>

create_mtf_insights_image_api(d) ==
    [title |-> "(as on " \o DictGet(d.items, "date", None) \o ")",
     rows |-> [i \in 1..Len(ordered_keys(d.items)) |->
                 [key |-> ordered_keys(d.items)[i],
                  value |-> DictGet(d.items, ordered_keys(d.items)[i], "N/A")]]]

create_mtf_insights_image_cli(d) ==
    [title |-> "(as on " \o DictGet(d.items, "date", None) \o ")",
     rows |-> [i \in 1..Len(fixed_keys) |->
                 [key |-> fixed_keys[i], value |-> DictGet(d.items, fixed_keys[i], "N/A")]]]

create_image(v, j, d) ==
    CASE j = "global" -> create_market_update_image(d)
      [] j = "mtf" /\ v = "api" -> create_mtf_insights_image_api(d)
      [] j = "mtf" /\ v # "api" -> create_mtf_insights_image_cli(d)

\* A captioner that walks the labels from the last to the first.
build_tweet_text_global_reversed(d) ==
    <<"Global Market Update - " \o Today>>
        \o [i \in 1..Len(Labels) |->
              LET k == Labels[Len(Labels) + 1 - i]
                  q == DictGet(d.items, k, Placeholder)
              IN  k \o ": " \o q.val \o " (" \o q.chg \o ")"]
        \o <<"#GIFTNIFTY #Nifty #DowJones #Nasdaq #Nikkei #HangSeng">>

\* The caption as its list of lines (joined with newlines by the code).
build_tweet_text_global(d) ==
    <<"Global Market Update - " \o Today>>
        \o [i \in 1..Len(Labels) |->
              LET q == DictGet(d.items, Labels[i], Placeholder)
              IN  Labels[i] \o ": " \o q.val \o " (" \o q.chg \o ")"]
        \o <<"#GIFTNIFTY #Nifty #DowJones #Nasdaq #Nikkei #HangSeng">>

build_tweet_text_mtf_api(d) ==
    <<"MTF Insights (as on " \o DictGet(d.items, "date", None) \o ")">>
        \o [i \in 1..Len(ordered_keys(d.items)) |->
              "- " \o ordered_keys(d.items)[i] \o ": "
                   \o DictGet(d.items, ordered_keys(d.items)[i], "N/A")]
        \o <<"#MTF #nifty #GIFTNIFTY #banknifty">>

build_tweet_text_mtf_cli(d) ==
    <<"MTF Insights (as on " \o DictGet(d.items, "date", None) \o ")">>
        \o [i \in 1..Len(fixed_keys) |->
              "- " \o fixed_keys[i] \o ": " \o DictGet(d.items, fixed_keys[i], "N/A")]
        \o <<"#MTF #nifty #GIFTNIFTY #banknifty">>

build_tweet_text(v, d, j) ==
    CASE j = "global" -> build_tweet_text_global(d)
      [] j = "mtf" /\ v = "api" -> build_tweet_text_mtf_api(d)
      [] j = "mtf" /\ v # "api" -> build_tweet_text_mtf_cli(d)

(***************************************************************************)
(* post_to_twitter: what one call does, given the credentials present in   *)
(* the environment and whether the upload and the post go through.         *)
(***************************************************************************)
Creds ==
    {"TWITTER_API_KEY", "TWITTER_API_SECRET", "TWITTER_ACCESS_TOKEN",
     "TWITTER_ACCESS_TOKEN_SECRET"}

\* src/api/index.py: missing credentials raise ValueError, a failed upload or
\* post is re-raised.
post_to_twitter_api(present, uploadOk, tweetOk) ==
    IF present # Creds THEN [raised |-> TRUE, uploads |-> 0, tweets |-> 0, created |-> FALSE]
    ELSE IF ~uploadOk THEN [raised |-> TRUE, uploads |-> 1, tweets |-> 0, created |-> FALSE]
    ELSE IF ~tweetOk THEN [raised |-> TRUE, uploads |-> 1, tweets |-> 1, created |-> FALSE]
    ELSE [raised |-> FALSE, uploads |-> 1, tweets |-> 1, created |-> TRUE]

\* The command-line generations: missing credentials return, a failed upload
\* or post is printed and swallowed.
post_to_twitter_cli(present, uploadOk, tweetOk) ==
    IF present # Creds THEN [raised |-> FALSE, uploads |-> 0, tweets |-> 0, created |-> FALSE]
    ELSE IF ~uploadOk THEN [raised |-> FALSE, uploads |-> 1, tweets |-> 0, created |-> FALSE]
    ELSE IF ~tweetOk THEN [raised |-> FALSE, uploads |-> 1, tweets |-> 1, created |-> FALSE]
    ELSE [raised |-> FALSE, uploads |-> 1, tweets |-> 1, created |-> TRUE]

post_to_twitter(v, present, uploadOk, tweetOk) ==
    IF v = "api" THEN post_to_twitter_api(present, uploadOk, tweetOk)
    ELSE post_to_twitter_cli(present, uploadOk, tweetOk)

\* The environment before post_to_twitter has read it.
TwitterUnread == [present |-> Creds, uploadOk |-> TRUE, tweetOk |-> TRUE]

\* What a call of post_to_twitter can meet: any subset of the four variables
\* set; with all four set, an upload that fails, a post that fails, or both
\* going through.  (Without the credentials neither call is reached.)
TwitterEnvs ==
    {[present |-> p, uploadOk |-> TRUE, tweetOk |-> TRUE] : p \in SUBSET Creds}
    \cup {[present |-> Creds, uploadOk |-> FALSE, tweetOk |-> TRUE],
          [present |-> Creds, uploadOk |-> TRUE, tweetOk |-> FALSE]}

(***************************************************************************)
(* One run of a job: main() of the command-line generations, a route       *)
(* handler of the HTTP generation.                                         *)
(***************************************************************************)
Sources == {Labels[i] : i \in 1..Len(Labels)} \cup {"MTF"}

NoCall == [fn |-> "none", arg |-> [kind |-> "none"], ret |-> NoneQuote]

NoImage == [title |-> "", rows |-> <<>>]

GoodRow(p) == [Close |-> p, nan |-> {}]

GapRow == [Close |-> 0, nan |-> Columns]

\* The provider answers a run draws from: an exception, an empty frame, two
\* sessions, and a frame whose latest row is a gap.
RunYfResponses ==
    {[kind |-> "exception", rows |-> <<>>],
     [kind |-> "ok", rows |-> <<>>],
     [kind |-> "ok", rows |-> <<GoodRow(100000), GoodRow(101004)>>],
     [kind |-> "ok", rows |-> <<GoodRow(100000), GoodRow(101004), GapRow>>]}

\* The source delivered what a quote needs: at least two non-null closes.
EnoughHistory(resp) ==
    resp.kind = "ok" /\ Len(SelectSeq(resp.rows, LAMBDA r : "Close" \notin r.nan)) >= 2

\* A handler that tests "data is None" where the dict may be empty.
fetch_failed_api_none_only(j, d) == d.none

\* The test each handler makes on what the fetch returned.
fetch_failed_api(j, d) == IF j = "global" THEN d.none \/ d.items = <<>> ELSE d.none

\* A main() that lost its "if data is None" test.
fetch_failed_cli_unchecked(j, d) == FALSE

fetch_failed_cli(j, d) == d.none

fetch_failed(v, j, d) ==
    CASE v = "api" -> fetch_failed_api(j, d)
      [] v = "cli" -> fetch_failed_cli(j, d)
      [] v = "old" -> FALSE

\* The fixed file names the two image functions of the HTTP generation save to.
image_path(j) ==
    IF j = "global" THEN "/tmp/global_market_update.png" ELSE "/tmp/mtf_insights.png"

ImagePaths == {image_path(j) : j \in Jobs}

Invocations == {1, 2}

\* A request that has not been received, and one that has.
NotInvoked ==
    [pc |-> "none", data |-> NoneData, text |-> <<>>, published |-> <<>>,
     outcome |-> "running"]

Received == [NotInvoked EXCEPT !.pc = "start"]

Init ==
    /\ variant \in Variants
    /\ job \in Jobs
    /\ postFlag \in BOOLEAN
    /\ (variant # "cli" => postFlag)
    /\ pc = "start"
    /\ idx = 1
    /\ src = [s \in Sources |-> [n |-> 0, live |-> FALSE, ret |-> NoneQuote]]
    /\ call = NoCall
    /\ data = NoneData
    /\ image = NoImage
    /\ text = <<>>
    /\ textFile = <<>>
    /\ posts = 0
    /\ uploads = 0
    /\ tweets = 0
    /\ published = <<>>
    /\ outcome = "running"
    /\ twitter = TwitterUnread
    /\ inv = [i \in Invocations |-> NotInvoked]
    /\ tmp = [f \in ImagePaths |-> NoImage]

\* The job is dispatched; fetch_global_market_data starts with an empty dict.
Start ==
    /\ pc = "start"
    /\ pc' = IF job = "global" THEN "fetch_gift" ELSE "fetch_mtf"
    /\ data' = IF job = "global" THEN Some(<<>>) ELSE NoneData
    /\ UNCHANGED <<inv, tmp, twitter, variant, job, postFlag, idx, src, call, image, text, textFile,
                   posts, uploads, tweets, published, outcome>>

FetchGift ==
    /\ pc = "fetch_gift"
    /\ \E resp \in GiftResponses :
         LET q == fetch_gift_nifty(variant, resp)
             r == add_quote(variant, data, "GIFTNIFTY", q)
         IN  /\ call' = [fn |-> "fetch_gift_nifty", arg |-> resp, ret |-> q]
             /\ src' = [src EXCEPT !["GIFTNIFTY"] =
                           [n |-> @.n + 1, live |-> resp.kind = "ok", ret |-> q]]
             /\ data' = r.data
             /\ pc' = IF r.stop THEN "fetched" ELSE "fetch_ticker"
    /\ idx' = 1
    /\ UNCHANGED <<inv, tmp, twitter, variant, job, postFlag, image, text, textFile, posts, uploads,
                   tweets, published, outcome>>

\* A ticker loop that asks a ticker a second time when its first fetch failed.
FetchTicker_retrying ==
    /\ pc = "fetch_ticker"
    /\ \E resp \in RunYfResponses :
         LET name == tickers[idx].name
             q == get_yfinance_data(variant, resp)
             r == add_quote(variant, data, name, q)
             retry == q.val = None /\ src[name].n = 0
             last == r.stop \/ idx = Len(tickers)
         IN  /\ call' = [fn |-> "get_yfinance_data", arg |-> resp, ret |-> q]
             /\ src' = [src EXCEPT ![name] =
                           [n |-> @.n + 1, live |-> EnoughHistory(resp), ret |-> q]]
             /\ data' = IF retry THEN data ELSE r.data
             /\ pc' = IF retry \/ ~last THEN "fetch_ticker" ELSE "fetched"
             /\ idx' = IF retry \/ last THEN idx ELSE idx + 1
    /\ UNCHANGED <<inv, tmp, twitter, variant, job, postFlag, image, text, textFile, posts, uploads,
                   tweets, published, outcome>>

FetchTicker ==
    /\ pc = "fetch_ticker"
    /\ \E resp \in RunYfResponses :
         LET name == tickers[idx].name
             q == get_yfinance_data(variant, resp)
             r == add_quote(variant, data, name, q)
             last == r.stop \/ idx = Len(tickers)
         IN  /\ call' = [fn |-> "get_yfinance_data", arg |-> resp, ret |-> q]
             /\ src' = [src EXCEPT ![name] =
                           [n |-> @.n + 1, live |-> EnoughHistory(resp), ret |-> q]]
             /\ data' = r.data
             /\ pc' = IF last THEN "fetched" ELSE "fetch_ticker"
             /\ idx' = IF last THEN idx ELSE idx + 1
    /\ UNCHANGED <<inv, tmp, twitter, variant, job, postFlag, image, text, textFile, posts, uploads,
                   tweets, published, outcome>>

FetchMtf ==
    /\ pc = "fetch_mtf"
    /\ \E resp \in MtfResponses :
         LET d == fetch_mtf_data(variant, resp)
         IN  /\ call' = [fn |-> "fetch_mtf_data", arg |-> resp, ret |-> d]
             /\ src' = [src EXCEPT !["MTF"] =
                           [n |-> @.n + 1, live |-> resp.kind = "ok", ret |-> NoneQuote]]
             /\ data' = d
    /\ pc' = "fetched"
    /\ UNCHANGED <<inv, tmp, twitter, variant, job, postFlag, idx, image, text, textFile, posts,
                   uploads, tweets, published, outcome>>

\* "if data is None: sys.exit(1)" / "if not data: return ..., 500"
CheckData ==
    /\ pc = "fetched"
    /\ IF fetch_failed(variant, job, data)
       THEN pc' = "done" /\ outcome' = "failure"
       ELSE pc' = "render" /\ outcome' = outcome
    /\ UNCHANGED <<inv, tmp, twitter, variant, job, postFlag, idx, src, call, data, image, text,
                   textFile, posts, uploads, tweets, published>>

Render ==
    /\ pc = "render"
    /\ image' = create_image(variant, job, data)
    /\ pc' = "caption"
    /\ UNCHANGED <<inv, tmp, twitter, variant, job, postFlag, idx, src, call, data, text, textFile,
                   posts, uploads, tweets, published, outcome>>

Caption ==
    /\ pc = "caption"
    /\ text' = build_tweet_text(variant, data, job)
    /\ pc' = IF variant = "api" THEN "post" ELSE "save"
    /\ UNCHANGED <<inv, tmp, twitter, variant, job, postFlag, idx, src, call, data, image, textFile,
                   posts, uploads, tweets, published, outcome>>

\* A main() that posts whether or not --post was given.
SaveText_always_posting ==
    /\ pc = "save"
    /\ textFile' = text
    /\ pc' = "post"
    /\ UNCHANGED <<inv, tmp, twitter, variant, job, postFlag, idx, src, call, data, image, text,
                   posts, uploads, tweets, published, outcome>>

\* The command-line generations write the caption to a file; the second one
\* posts only with --post.
SaveText ==
    /\ pc = "save"
    /\ textFile' = text
    /\ pc' = IF postFlag THEN "post" ELSE "finish"
    /\ UNCHANGED <<inv, tmp, twitter, variant, job, postFlag, idx, src, call, data, image, text,
                   posts, uploads, tweets, published, outcome>>

Post ==
    /\ pc = "post"
    /\ \E env \in TwitterEnvs :
         LET r == post_to_twitter(variant, env.present, env.uploadOk, env.tweetOk)
         IN  /\ twitter' = env
             /\ posts' = posts + 1
             /\ uploads' = uploads + r.uploads
             /\ tweets' = tweets + r.tweets
             /\ published' = IF r.created
                             THEN Append(published, [text |-> text, image |-> image])
                             ELSE published
             /\ IF r.raised
                THEN pc' = "done" /\ outcome' = "failure"
                ELSE pc' = (IF variant = "api" THEN "cleanup" ELSE "finish")
                     /\ outcome' = outcome
    /\ UNCHANGED <<inv, tmp, variant, job, postFlag, idx, src, call, data, image, text,
                   textFile>>

\* The HTTP handler removes the image file and answers 200.
Cleanup ==
    /\ pc = "cleanup"
    /\ image' = NoImage
    /\ outcome' = "success"
    /\ pc' = "done"
    /\ UNCHANGED <<inv, tmp, twitter, variant, job, postFlag, idx, src, call, data, text, textFile,
                   posts, uploads, tweets, published>>

\* main() returns: exit status 0.
Finish ==
    /\ pc = "finish"
    /\ outcome' = "success"
    /\ pc' = "done"
    /\ UNCHANGED <<inv, tmp, twitter, variant, job, postFlag, idx, src, call, data, image, text,
                   textFile, posts, uploads, tweets, published>>

Next ==
    \/ Start
    \/ FetchGift
    \/ FetchTicker
    \/ FetchMtf
    \/ CheckData
    \/ Render
    \/ Caption
    \/ SaveText
    \/ Post
    \/ Cleanup
    \/ Finish

Spec == Init /\ [][Next]_vars

(***************************************************************************)
(* The two quote fetchers on their own, over every answer of the sources.  *)
(***************************************************************************)
InitFetch ==
    /\ variant \in Variants
    /\ job = "global"
    /\ postFlag = TRUE
    /\ pc = "idle"
    /\ idx = 1
    /\ src = [s \in Sources |-> [n |-> 0, live |-> FALSE, ret |-> NoneQuote]]
    /\ call = NoCall
    /\ data = NoneData
    /\ image = NoImage
    /\ text = <<>>
    /\ textFile = <<>>
    /\ posts = 0
    /\ uploads = 0
    /\ tweets = 0
    /\ published = <<>>
    /\ outcome = "running"
    /\ twitter = TwitterUnread
    /\ inv = [i \in Invocations |-> NotInvoked]
    /\ tmp = [f \in ImagePaths |-> NoImage]

CallYfinance ==
    /\ pc = "idle"
    /\ \E resp \in YfResponses :
         call' = [fn |-> "get_yfinance_data", arg |-> resp,
                  ret |-> get_yfinance_data(variant, resp)]
    /\ pc' = "returned"
    /\ UNCHANGED <<inv, tmp, twitter, variant, job, postFlag, idx, src, data, image, text, textFile,
                   posts, uploads, tweets, published, outcome>>

CallGiftNifty ==
    /\ pc = "idle"
    /\ \E resp \in GiftResponses :
         call' = [fn |-> "fetch_gift_nifty", arg |-> resp,
                  ret |-> fetch_gift_nifty(variant, resp)]
    /\ pc' = "returned"
    /\ UNCHANGED <<inv, tmp, twitter, variant, job, postFlag, idx, src, data, image, text, textFile,
                   posts, uploads, tweets, published, outcome>>

NextFetch ==
    \/ CallYfinance
    \/ CallGiftNifty

SpecFetch == InitFetch /\ [][NextFetch]_vars

(***************************************************************************)
(* Two invocations of the same job of the HTTP generation, served over the *)
(* same /tmp: each runs its route handler of src/api/index.py, one step at *)
(* a time, interleaved with the other.                                     *)
(***************************************************************************)
\* fetch_global_market_data of src/api/index.py as one call, for a GIFT NIFTY
\* answer g and an answer y that every ticker gives.
RECURSIVE AddTickers(_, _, _)
AddTickers(d, i, y) ==
    IF i > Len(tickers) THEN d
    ELSE AddTickers(add_quote_api(d, tickers[i].name, get_yfinance_data_api(y)).data, i + 1, y)

fetch_global_market_data_api(g, y) ==
    AddTickers(add_quote_api(Some(<<>>), "GIFTNIFTY", fetch_gift_nifty_api(g)).data, 1, y)

\* The pages the two invocations of the MTF job may be served: the four
\* figures with or without a report date, under either net-book label, or a
\* failed request.
PairMtfResponses ==
    {[kind |-> "ok", date |-> d,
      fields |-> FieldOf("Positions Added", "+") \o FieldOf("Positions Liquidated", "-")
                     \o FieldOf(nb, "+") \o FieldOf("Industry MTF Book", "")] :
        d \in PageDates, nb \in {"Net Book Added", "Net Book Liquidated"}}
    \cup {[kind |-> "timeout", date |-> "", fields |-> <<>>]}

\* What the fetch of an invocation can return.
PairFetched(j) ==
    IF j = "global"
    THEN {fetch_global_market_data_api(g, y) : g \in GiftResponses, y \in RunYfResponses}
    ELSE {fetch_mtf_data_api(r) : r \in PairMtfResponses}

InitPair ==
    /\ variant = "api"
    /\ job \in Jobs
    /\ postFlag = TRUE
    /\ pc = "pair"
    /\ idx = 1
    /\ src = [s \in Sources |-> [n |-> 0, live |-> FALSE, ret |-> NoneQuote]]
    /\ call = NoCall
    /\ data = NoneData
    /\ image = NoImage
    /\ text = <<>>
    /\ textFile = <<>>
    /\ posts = 0
    /\ uploads = 0
    /\ tweets = 0
    /\ published = <<>>
    /\ outcome = "running"
    /\ twitter = TwitterUnread
    /\ inv = [i \in Invocations |-> Received]
    /\ tmp = [f \in ImagePaths |-> NoImage]

\* The variables of the single run, which the pair leaves alone.
run_vars ==
    <<variant, job, postFlag, pc, idx, src, call, data, image, text, textFile,
      posts, uploads, tweets, published, outcome, twitter>>

\* "data = fetch_...(); if not data: return ..., 500"
PairFetch(i) ==
    /\ inv[i].pc = "start"
    /\ \E d \in PairFetched(job) :
         inv' = [inv EXCEPT ![i] =
                    IF fetch_failed_api(job, d)
                    THEN [@ EXCEPT !.data = d, !.pc = "done", !.outcome = "failure"]
                    ELSE [@ EXCEPT !.data = d, !.pc = "render"]]
    /\ UNCHANGED tmp
    /\ UNCHANGED run_vars

\* "image_file = create_..._image(data)": img.save(filename) on the fixed name.
PairRender(i) ==
    /\ inv[i].pc = "render"
    /\ tmp' = [tmp EXCEPT ![image_path(job)] = create_image("api", job, inv[i].data)]
    /\ inv' = [inv EXCEPT ![i].pc = "caption"]
    /\ UNCHANGED run_vars

\* "tweet_text = build_tweet_text(data, job)"
PairCaption(i) ==
    /\ inv[i].pc = "caption"
    /\ inv' = [inv EXCEPT ![i].text = build_tweet_text("api", inv[i].data, job),
                          ![i].pc = "post"]
    /\ UNCHANGED tmp
    /\ UNCHANGED run_vars

\* "post_to_twitter(tweet_text, image_file)": media_upload reads the file that
\* is under the name now, and raises when there is none.
PairPost(i) ==
    /\ inv[i].pc = "post"
    /\ \E env \in TwitterEnvs :
         LET found == tmp[image_path(job)]
             r == post_to_twitter_api(env.present, env.uploadOk /\ found # NoImage,
                                      env.tweetOk)
         IN  inv' = [inv EXCEPT
                        ![i].published = IF r.created
                                         THEN <<[text |-> inv[i].text, image |-> found]>>
                                         ELSE <<>>,
                        ![i].outcome = IF r.raised THEN "failure" ELSE @,
                        ![i].pc = IF r.raised THEN "done" ELSE "cleanup"]
    /\ UNCHANGED tmp
    /\ UNCHANGED run_vars

\* "if os.path.exists(image_file): os.remove(image_file)", then status 200.
PairCleanup(i) ==
    /\ inv[i].pc = "cleanup"
    /\ tmp' = [tmp EXCEPT ![image_path(job)] = NoImage]
    /\ inv' = [inv EXCEPT ![i].pc = "done", ![i].outcome = "success"]
    /\ UNCHANGED run_vars

NextPair ==
    \/ \E i \in Invocations : PairFetch(i)
    \/ \E i \in Invocations : PairRender(i)
    \/ \E i \in Invocations : PairCaption(i)
    \/ \E i \in Invocations : PairPost(i)
    \/ \E i \in Invocations : PairCleanup(i)

SpecPair == InitPair /\ [][NextPair]_vars

(***************************************************************************)
(* Properties.                                                             *)
(***************************************************************************)
LabelSet == {Labels[i] : i \in 1..Len(Labels)}

\* fetch_global_market_data has returned.
GlobalFetched == job = "global" /\ pc \notin {"start", "fetch_gift", "fetch_ticker", "idle", "returned"}

\* A fetcher of this run returned the absence signal.
SomeFetcherAbsent == \E l \in LabelSet : src[l].n > 0 /\ src[l].ret.val = None

AllFetchersAnswered == \A l \in LabelSet : src[l].n = 1 /\ src[l].ret.val # None

\* C1 as stated, for both aggregators it cites: one failed source makes the
\* result None, and a snapshot is returned only when all six succeeded and then
\* holds six entries.
C1_AllOrNothingEverywhere ==
    (GlobalFetched /\ variant \in {"cli", "api"}) =>
        /\ (SomeFetcherAbsent => data.none)
        /\ (~data.none => AllFetchersAnswered /\ Len(data.items) = 6)

\* C1 amended: the strict aggregator (src/tweet_bot/tweet_bot.py) returns None
\* exactly when one of its fetchers returned absence, and otherwise a snapshot
\* of exactly the six labels, each with the quote its fetcher returned; the
\* lenient aggregator (src/api/index.py) never returns None and holds exactly
\* the labels whose fetcher returned a quote.
C1_StrictAllOrNothing ==
    /\ (GlobalFetched /\ variant = "cli") =>
          /\ (data.none <=> SomeFetcherAbsent)
          /\ (~data.none =>
                /\ AllFetchersAnswered
                /\ DictKeys(data.items) = Labels
                /\ \A i \in 1..Len(data.items) :
                      data.items[i].value = src[data.items[i].key].ret)
    /\ (GlobalFetched /\ variant = "api") =>
          /\ ~data.none
          /\ {data.items[i].key : i \in 1..Len(data.items)}
                = {l \in LabelSet : src[l].ret.val # None}

\* C1 witness: a strict run whose third ticker failed after three sources
\* succeeded, and which returned None.
C1_Witness ==
    /\ variant = "cli" /\ GlobalFetched /\ data.none
    /\ src["GIFTNIFTY"].ret.val # None
    /\ src["Dow Jones Futures"].ret.val # None
    /\ src["S&P 500"].n = 1 /\ src["S&P 500"].ret.val = None

\* The fetch of the run returned nothing: None, or an empty dict.
FetchReturnedNothing ==
    pc \notin {"start", "fetch_gift", "fetch_ticker", "fetch_mtf", "idle", "returned"}
        /\ (data.none \/ data.items = <<>>)

\* The data holds every entry of its job: the six labels, or the date and the
\* four figures.
CompleteData ==
    /\ ~data.none
    /\ IF job = "global"
       THEN {data.items[i].key : i \in 1..Len(data.items)} = LabelSet
       ELSE Len(data.items) = 5

\* A failed fetch leaves no image and no post, and ends as a failure.
NoArtifactAfterFailedFetch ==
    FetchReturnedNothing =>
        /\ image = NoImage
        /\ text = <<>>
        /\ posts = 0
        /\ pc = "done" => outcome = "failure"

\* C2 as stated: a failed fetch leaves no image, no post and a failure, and
\* post_to_twitter is only called after a fetch that returned a complete result.
C2_PostOnlyAfterCompleteFetch ==
    variant \in {"cli", "api"} =>
        /\ NoArtifactAfterFailedFetch
        /\ (posts > 0 => CompleteData)

\* C2 amended: a failed fetch leaves no image, no post and a failure; a call of
\* post_to_twitter follows a fetch that returned a complete result in the
\* command-line variant and, in the HTTP variant, a complete MTF record or a
\* global snapshot with at least one label.
C2_PostOnlyAfterFetchResult ==
    variant \in {"cli", "api"} =>
        /\ NoArtifactAfterFailedFetch
        /\ (posts > 0 /\ (variant = "cli" \/ job = "mtf") => CompleteData)
        /\ (posts > 0 /\ variant = "api" /\ job = "global" =>
               ~data.none /\ Len(data.items) >= 1)

\* C2 witness: a command-line run ended as a failure after its fetch returned
\* None, and another source had already answered.
C2_Witness ==
    /\ variant = "cli" /\ pc = "done" /\ outcome = "failure"
    /\ data.none /\ posts = 0 /\ image = NoImage
    /\ src["GIFTNIFTY"].ret.val # None

\* The page text carries a figure under one of the labels.
PageHas(resp, labels) ==
    resp.kind = "ok" /\ \E i \in 1..Len(resp.fields) : resp.fields[i].label \in labels

\* One of the four currency figures is missing from what the request returned.
CurrencyFieldMissing(resp) ==
    \/ ~PageHas(resp, {"Positions Added"})
    \/ ~PageHas(resp, {"Positions Liquidated"})
    \/ ~PageHas(resp, {"Net Book Added", "Net Book Liquidated"})
    \/ ~PageHas(resp, {"Industry MTF Book"})

\* The page of the spec's example: the four figures with the signs the report
\* prints, under the label "Net Book Added".
SamplePage(resp) ==
    /\ resp.kind = "ok"
    /\ resp.fields = FieldOf("Positions Added", "+") \o FieldOf("Positions Liquidated", "-")
                        \o FieldOf("Net Book Added", "+") \o FieldOf("Industry MTF Book", "")

\* The record holds the date and the four currency fields, none a placeholder.
CompleteInsight(d) ==
    /\ ~d.none
    /\ Len(d.items) = 5
    /\ HasKey(d.items, "date")
    /\ HasKey(d.items, "Positions Added")
    /\ HasKey(d.items, "Positions Liquidated")
    /\ \E k \in {"Net Book Added", "Net Book Liquidated"} : HasKey(d.items, k)
    /\ \E k \in {"Industry MTF Book", "Net Industry MTF Book"} : HasKey(d.items, k)
    /\ \A i \in 1..Len(d.items) : d.items[i].value \notin {"N/A", None}

\* C3: fetch_mtf_data (all three generations) returns None when one of the four
\* currency figures is missing, a complete record for the sample page, and
\* never a record that lacks a currency field or holds "N/A" for one.
C3_MtfAllOrNothing ==
    call.fn = "fetch_mtf_data" =>
        /\ (CurrencyFieldMissing(call.arg) => call.ret.none)
        /\ (SamplePage(call.arg) => ~call.ret.none)
        /\ (~call.ret.none => CompleteInsight(call.ret))

\* The closes of the answer that are not null, oldest first.
ValidCloses(resp) ==
    IF resp.kind = "ok" THEN SelectSeq(resp.rows, LAMBDA r : "Close" \notin r.nan) ELSE <<>>

\* The quote of the latest close v[n] against the one before it.
QuoteOfCloses(cur, prev) ==
    [val |-> FormatGrouped2(cur, 1000),
     chg |-> FormatSigned2((cur - prev) * 100, prev) \o "%"]

\* C4: get_yfinance_data (all three generations) returns (None, None) when the
\* history holds fewer than two non-null closes, and a quote it returns is the
\* one of the two most recent non-null closes.
C4_TwoValidCloses ==
    call.fn = "get_yfinance_data" =>
        LET v == ValidCloses(call.arg)
        IN  /\ (Len(v) < 2 => call.ret = NoneQuote)
            /\ (call.ret # NoneQuote =>
                   /\ Len(v) >= 2
                   /\ call.ret = QuoteOfCloses(v[Len(v)].Close, v[Len(v) - 1].Close))

\* C5: for every failure of the source, fetch_gift_nifty and get_yfinance_data
\* (src/api/index.py and src/tweet_bot.py) return the absence signal (None, None).
C5_FailureIsAbsence ==
    (call.fn \in {"fetch_gift_nifty", "get_yfinance_data"}
        /\ variant \in {"api", "old"} /\ call.arg.kind # "ok")
        => call.ret = NoneQuote

\* C6: every label of the snapshot returned by fetch_global_market_data
\* (src/api/index.py and src/tweet_bot.py) carries the quote of a successful
\* live fetch of this run, never a stand-in, and a label whose source failed is
\* absent.
C6_NoPlaceholderQuote ==
    (GlobalFetched /\ variant \in {"api", "old"} /\ ~data.none) =>
        /\ \A i \in 1..Len(data.items) :
              /\ src[data.items[i].key].live
              /\ data.items[i].value = src[data.items[i].key].ret
              /\ data.items[i].value.val \notin {"N/A", None}
        /\ \A l \in LabelSet :
              (src[l].n > 0 /\ ~src[l].live) => ~HasKey(data.items, l)

\* Position of a label in the presentation order.
LabelPos(k) == CHOOSE i \in 1..Len(Labels) : Labels[i] = k

\* C7: the keys of every snapshot fetch_global_market_data returns are labels
\* of the fixed vocabulary, in the fixed order GIFTNIFTY, Nikkei 225, Dow Jones
\* Futures, S&P 500, Nasdaq, Hang Seng, whichever sub-fetches failed.
C7_KeyOrder ==
    (GlobalFetched /\ ~data.none) =>
        /\ \A i \in 1..Len(data.items) : data.items[i].key \in LabelSet
        /\ \A i, j \in 1..Len(data.items) :
              i < j => LabelPos(data.items[i].key) < LabelPos(data.items[j].key)

\* C7 witness: a lenient snapshot with gaps: GIFTNIFTY, Dow Jones Futures and
\* Nasdaq failed, the other three are present.
C7_Witness ==
    /\ variant = "api" /\ GlobalFetched /\ ~data.none
    /\ DictKeys(data.items) = <<"Nikkei 225", "S&P 500", "Hang Seng">>

\* The figure printed under a label.
FigureOf(resp, label) ==
    resp.fields[CHOOSE i \in 1..Len(resp.fields) : resp.fields[i].label = label].value

\* C8 as stated: for the sample page (Positions Added +, Positions Liquidated -,
\* Net Book Added +, Industry MTF Book unsigned) the record holds the three
\* unsigned strings and "-₹<value> Cr" for Positions Liquidated.
C8_SignBeforeSymbol ==
    (call.fn = "fetch_mtf_data" /\ variant \in {"api", "cli"} /\ SamplePage(call.arg)) =>
        LET r == call.ret.items
            a == call.arg
        IN  /\ ~call.ret.none
            /\ DictGet(r, "Positions Added", None)
                  = "Rs" \o FigureOf(a, "Positions Added") \o " Cr"
            /\ DictGet(r, "Net Book Added", None)
                  = "Rs" \o FigureOf(a, "Net Book Added") \o " Cr"
            /\ DictGet(r, "Industry MTF Book", None)
                  = "Rs" \o FigureOf(a, "Industry MTF Book") \o " Cr"
            /\ DictGet(r, "Positions Liquidated", None)
                  = "-Rs" \o FigureOf(a, "Positions Liquidated") \o " Cr"

\* C8 amended: for the sample page, src/api/index.py returns Positions Added
\* and Industry MTF Book as "₹<value> Cr" and keeps the captured sign after the
\* currency symbol for the other two: "₹-<value> Cr" for Positions Liquidated,
\* "₹+<value> Cr" for Net Book Added; src/tweet_bot/tweet_bot.py returns all
\* four as "₹<value> Cr", the last under the key "Net Industry MTF Book".
C8_CapturedSignAfterSymbol ==
    (call.fn = "fetch_mtf_data" /\ SamplePage(call.arg)) =>
        LET r == call.ret.items
            a == call.arg
        IN  /\ variant = "api" =>
                  /\ ~call.ret.none
                  /\ DictGet(r, "Positions Added", None)
                        = "Rs" \o FigureOf(a, "Positions Added") \o " Cr"
                  /\ DictGet(r, "Industry MTF Book", None)
                        = "Rs" \o FigureOf(a, "Industry MTF Book") \o " Cr"
                  /\ DictGet(r, "Positions Liquidated", None)
                        = "Rs-" \o FigureOf(a, "Positions Liquidated") \o " Cr"
                  /\ DictGet(r, "Net Book Added", None)
                        = "Rs+" \o FigureOf(a, "Net Book Added") \o " Cr"
            /\ variant = "cli" =>
                  /\ ~call.ret.none
                  /\ DictGet(r, "Positions Added", None)
                        = "Rs" \o FigureOf(a, "Positions Added") \o " Cr"
                  /\ DictGet(r, "Net Industry MTF Book", None)
                        = "Rs" \o FigureOf(a, "Industry MTF Book") \o " Cr"
                  /\ DictGet(r, "Positions Liquidated", None)
                        = "Rs" \o FigureOf(a, "Positions Liquidated") \o " Cr"
                  /\ DictGet(r, "Net Book Added", None)
                        = "Rs" \o FigureOf(a, "Net Book Added") \o " Cr"

\* C8 witness: the HTTP variant has fetched the sample page and returned the
\* liquidated figure with its minus sign.
C8_Witness ==
    /\ variant = "api" /\ call.fn = "fetch_mtf_data" /\ SamplePage(call.arg)
    /\ DictGet(call.ret.items, "Positions Liquidated", None) = "Rs-6,085.26 Cr"

\* The answer is a frame of at least two rows without a null cell.
AllRowsValid(resp) ==
    /\ resp.kind = "ok"
    /\ Len(resp.rows) >= 2
    /\ \A i \in 1..Len(resp.rows) : resp.rows[i].nan = {}

\* C9: for the two latest closes (prev, cur) of a frame without nulls, the
\* change string is a sign, '+' when cur >= prev and '-' when cur < prev, the
\* value |cur - prev| / prev * 100 taken to the nearest hundredth and written
\* with exactly two decimals, and '%'.
C9_ChangePercent ==
    (call.fn = "get_yfinance_data" /\ AllRowsValid(call.arg)) =>
        LET cur == call.arg.rows[Len(call.arg.rows)].Close
            prev == call.arg.rows[Len(call.arg.rows) - 1].Close
            a == Abs(cur - prev) * 100
            whole == a \div prev
            rem == a % prev
            sign == IF cur >= prev THEN "+" ELSE "-"
        IN  \E f \in 0..100 :
                /\ 2 * Abs(f * prev - rem * 100) <= prev
                /\ call.ret.chg =
                      sign \o ToStr((whole * 100 + f) \div 100) \o "."
                           \o Pad2((whole * 100 + f) % 100) \o "%"

\* C9 witness: a fall too small for two decimals keeps its minus sign.
C9_Witness ==
    /\ call.fn = "get_yfinance_data" /\ AllRowsValid(call.arg) /\ variant = "api"
    /\ call.arg.rows[Len(call.arg.rows)].Close < call.arg.rows[Len(call.arg.rows) - 1].Close
    /\ call.ret.chg = "-0.00%"

\* The page carries the four figures with the signs every generation accepts,
\* the net-book figure once, under the label L.
PageWithNetBook(resp, L) ==
    /\ resp.kind = "ok"
    /\ \E s \in Signs :
          resp.fields = FieldOf("Positions Added", "+") \o FieldOf("Positions Liquidated", "-")
                           \o FieldOf(L, s) \o FieldOf("Industry MTF Book", "")

\* C10: when the page reports the net-book figure under a label (Net Book Added
\* or Net Book Liquidated), the record of fetch_mtf_data (src/api/index.py and
\* src/tweet_bot/tweet_bot.py) has that label as its only net-book key, with
\* that figure, and the image and the caption carry the same key.
C10_NetBookLabelCarried ==
    (call.fn = "fetch_mtf_data" /\ variant \in {"api", "cli"}) =>
        \A L \in {"Net Book Added", "Net Book Liquidated"} :
            PageWithNetBook(call.arg, L) =>
                /\ ~call.ret.none
                /\ HasKey(call.ret.items, L)
                /\ \A i \in 1..Len(call.ret.items) :
                      IsNetBookKey(call.ret.items[i].key) => call.ret.items[i].key = L
                /\ \E s \in Signs :
                      DictGet(call.ret.items, L, None) = "Rs" \o s \o FigureOf(call.arg, L) \o " Cr"
                /\ image # NoImage => \E i \in 1..Len(image.rows) : image.rows[i].key = L
                /\ text # <<>> =>
                      \E i \in 1..Len(text) :
                          text[i] = "- " \o L \o ": " \o DictGet(call.ret.items, L, None)

(***************************************************************************)
(* The publisher and the outcome of the run.                               *)
(***************************************************************************)
\* post_to_twitter was called without the full set of credentials.
CredentialsMissing == posts > 0 /\ twitter.present # Creds

\* C11: when any of the four credentials is absent, post_to_twitter makes no
\* upload and no post call, and the run ends as a failure, never as a success.
C11_MissingCredentialIsFatal ==
    (pc = "done" /\ CredentialsMissing) =>
        /\ uploads = 0
        /\ tweets = 0
        /\ published = <<>>
        /\ outcome = "failure"

(***************************************************************************)
(* The caption of the global job.                                          *)
(***************************************************************************)
HashtagsGlobal == "#GIFTNIFTY #Nifty #DowJones #Nasdaq #Nikkei #HangSeng"

\* The caption line of one snapshot entry.
CaptionLine(entry) ==
    entry.key \o ": " \o entry.value.val \o " (" \o entry.value.chg \o ")"

\* The caption of the global job has been built from a six-entry snapshot.
CaptionOfFullSnapshot ==
    job = "global" /\ text # <<>> /\ ~data.none /\ Len(data.items) = Len(Labels)

\* C12: for a snapshot of six entries the caption of the global job has, after
\* its heading, exactly one line per entry, in snapshot order, each showing
\* that entry's own value and change, and then the fixed hashtag line.
C12_CaptionLinePerEntry ==
    CaptionOfFullSnapshot =>
        /\ Len(text) = Len(data.items) + 2
        /\ \A i \in 1..Len(data.items) : text[i + 1] = CaptionLine(data.items[i])
        /\ text[Len(text)] = HashtagsGlobal

\* A full snapshot whose first two entries differ has been captioned by the
\* HTTP generation.
C12_Witness ==
    /\ CaptionOfFullSnapshot
    /\ variant = "api"
    /\ data.items[1].value # data.items[2].value
    /\ Len(text) = 8

(***************************************************************************)
(* The lenient policy of the HTTP generation.                              *)
(***************************************************************************)
\* The labels whose fetcher returned a quote in this run.
Resolved == {l \in LabelSet : src[l].n > 0 /\ src[l].ret.val # None}

\* The keys of the snapshot, as a set.
SnapshotKeys == {data.items[i].key : i \in 1..Len(data.items)}

\* The global job of the HTTP generation after fetch_global_market_data.
HttpGlobalFetched == variant = "api" /\ GlobalFetched

NotFoundMarker == "Date not found"

\* The same answer of the page, with a report date printed on it.
WithDate(resp) == [resp EXCEPT !.date = "Jul 18, 2025"]

\* C14: when the page has no "as on ..." match and the four currency figures
\* are present, fetch_mtf_data returns a complete record whose date is the
\* "not found" marker, never a calendar date the page did not print; and a
\* page without a date yields absence only if it would with a date as well.
C14_MissingDateMarked ==
    (call.fn = "fetch_mtf_data" /\ call.arg.kind = "ok" /\ DateMatch(call.arg) = "") =>
        /\ SamplePage(call.arg) =>
             /\ CompleteInsight(call.ret)
             /\ DictGet(call.ret.items, "date", None) = NotFoundMarker
        /\ call.ret.none => fetch_mtf_data(variant, WithDate(call.arg)).none
        /\ ~call.ret.none => DictGet(call.ret.items, "date", None) = NotFoundMarker

\* post_to_twitter was called and no post was created: a credential was
\* missing, the upload failed or the post creation failed.
PublishFailed == posts > 0 /\ published = <<>>

\* C15: a publishing failure is not retried (at most one upload and one post
\* call in a run) and is fatal: the run whose post_to_twitter call created no
\* post ends as a failure, and a publishing run reports success only with the
\* post created.
C15_PublishFailureIsFatal ==
    /\ posts <= 1
    /\ uploads <= 1
    /\ tweets <= 1
    /\ (pc = "done" /\ PublishFailed) => outcome = "failure"
    /\ (outcome = "success" /\ postFlag) => Len(published) = 1

(***************************************************************************)
(* Requests to the upstream sources.                                       *)
(***************************************************************************)
\* The sources the job of this run reads.
SourcesOfJob == IF job = "global" THEN LabelSet ELSE {"MTF"}

\* C16: within one run each upstream source (the GIFT NIFTY page, each of the
\* five tickers, the MTF page) receives at most one request, whether or not
\* it answered, and a source of the other job receives none.
C16_OneRequestPerSource ==
    pc \notin {"idle", "returned"} =>
        /\ \A s \in Sources : src[s].n <= 1
        /\ \A s \in Sources \ SourcesOfJob : src[s].n = 0

\* A finished run of the HTTP generation in which the first ticker failed and
\* every source of the job was asked exactly once.
C16_Witness ==
    /\ variant = "api"
    /\ job = "global"
    /\ pc = "done"
    /\ src["Nikkei 225"].ret.val = None
    /\ \A s \in LabelSet : src[s].n = 1

(***************************************************************************)
(* The --post flag of the command-line generation.                         *)
(***************************************************************************)
\* The image and the caption file of the run's data have been written.
ArtifactsProduced ==
    /\ image # NoImage
    /\ image = create_image(variant, job, data)
    /\ textFile # <<>>
    /\ textFile = build_tweet_text(variant, data, job)

\* C18: in the command-line generation with the flag, a run without --post
\* never calls post_to_twitter (nor uploads or posts anything); a run with
\* --post calls it at most once, and only after the image and the caption
\* file have been produced.
C18_PostOnlyWithFlag ==
    variant = "cli" =>
        /\ ~postFlag => (posts = 0 /\ uploads = 0 /\ tweets = 0 /\ published = <<>>)
        /\ posts <= 1
        /\ pc = "post" => (postFlag /\ ArtifactsProduced)
        /\ posts > 0 => (postFlag /\ ArtifactsProduced)

\* A run with --post has called post_to_twitter, with both files written.
C18_Witness ==
    /\ variant = "cli"
    /\ postFlag
    /\ posts = 1
    /\ ArtifactsProduced
    /\ pc = "done"

(***************************************************************************)
(* The strict aggregator stops at the first failure.                       *)
(***************************************************************************)
\* The fetcher of the i-th label was called and returned the absence signal.
FailedAt(i) == src[Labels[i]].n > 0 /\ src[Labels[i]].ret.val = None

\* C19: in the strict aggregator (src/tweet_bot/tweet_bot.py) the sources are
\* queried in the fixed label order, and once one of them has returned
\* absence no later source of that order is queried in the run.
C19_StopsAtFirstFailure ==
    (variant = "cli" /\ job = "global" /\ pc \notin {"idle", "returned"}) =>
        \A i, j \in 1..Len(Labels) :
            i < j => /\ FailedAt(i) => src[Labels[j]].n = 0
                     /\ src[Labels[j]].n > 0 => src[Labels[i]].n > 0

\* A finished strict run in which the second source failed after the first
\* had answered, and the third was never asked.
C19_Witness ==
    /\ variant = "cli"
    /\ job = "global"
    /\ pc = "done"
    /\ src[Labels[1]].n = 1
    /\ ~FailedAt(1)
    /\ FailedAt(2)
    /\ src[Labels[3]].n = 0

(***************************************************************************)
(* Two interleaved invocations and the image file.                         *)
(***************************************************************************)
\* The image of an invocation's own snapshot.
OwnImage(i) == create_image("api", job, inv[i].data)

\* C17: for any interleaving of two invocations of the same HTTP job, the
\* image an invocation publishes is the one rendered from its own data, and
\* while an invocation is about to upload, the file under its image name is
\* still the one it wrote: the other's write or removal has not changed or
\* deleted it.
C17_NoSharedImageFile ==
    \A i \in Invocations :
        /\ inv[i].published # <<>> => inv[i].published[1].image = OwnImage(i)
        /\ inv[i].pc = "post" => tmp[image_path(job)] = OwnImage(i)

====
